---- MODULE Spec2Model ----
(***************************************************************************)
(* TextDiffEditor (vs/workbench/browser/parts/editor/textDiffEditor.ts):   *)
(* one editor pane, its diff widget, the DiffNavigator it owns, the two    *)
(* NavigateAction objects and the asynchronous input resolutions started   *)
(* by setInput.                                                            *)
(***************************************************************************)
EXTENDS Integers, Sequences, FiniteSets, TLC

\* Number of setInput calls that start a resolution.
MaxCalls == 2

\* The same, for the runs with three loads of two inputs.
MaxDeepCalls == 3

\* Number of toggle actions obtained from getSecondaryActions.
MaxToggleActions == 2

----------------------------------------------------------------------------
\* Values of the environment

Null == "null"

\* Editor inputs handed to setInput.  "A" and "A2" are two distinct objects
\* describing the same comparison, "B" is another comparison, "N" is an
\* input that is not a DiffEditorInput.  "D" compares a source with itself.
Inputs == {"A", "A2", "B", "N"}

InputDef ==
    [i \in Inputs \cup {"D"} |->
        CASE i = "A"  -> [isDiff |-> TRUE, name |-> "a.txt", description |-> "left-right",
                          original |-> "o1", modified |-> "m1", binary |-> FALSE]
          [] i = "A2" -> [isDiff |-> TRUE, name |-> "a.txt", description |-> "left-right",
                          original |-> "o1", modified |-> "m1", binary |-> FALSE]
          [] i = "B"  -> [isDiff |-> TRUE, name |-> "b.txt", description |-> "other",
                          original |-> "o2", modified |-> "m2", binary |-> FALSE]
          [] i = "D"  -> [isDiff |-> TRUE, name |-> "s.txt", description |-> "self",
                          original |-> "s", modified |-> "s", binary |-> FALSE]
          [] i = "N"  -> [isDiff |-> FALSE, name |-> "n.txt", description |-> "plain",
                          original |-> Null, modified |-> Null, binary |-> FALSE]]

\* Kind of the modified side of a comparison: StringEditorInput,
\* ResourceEditorInput or a file input.
SideKind ==
    [s \in {"m1", "m2", "s"} |-> IF s = "m1" THEN "string" ELSE "file"]

\* input instanceof DiffEditorInput
IsDiffEditorInput(i) == i \in DOMAIN InputDef /\ InputDef[i].isDiff

\* input.matches(other)
Matches(i, other) ==
    /\ other # Null
    /\ \/ i = other
       \/ /\ IsDiffEditorInput(i)
          /\ IsDiffEditorInput(other)
          /\ InputDef[i].original = InputDef[other].original
          /\ InputDef[i].modified = InputDef[other].modified
          /\ InputDef[i].binary = InputDef[other].binary

\* Editor options handed to setInput: none, TextEditorOptions, plain
\* EditorOptions with forceOpen set.
Options == {"none", "opts", "force"}

OptionsDef ==
    [o \in Options |-> [defined |-> o # "none", forceOpen |-> o = "force",
                        isText |-> o = "opts"]]

\* const forceOpen = options && options.forceOpen
ForceOpen(o) == OptionsDef[o].defined /\ OptionsDef[o].forceOpen

Positions == {0, 1}

\* Errors a resolution can fail with: a single error carrying a
\* fileOperationResult code, or an array of such errors.
BinaryError  == [isArray |-> FALSE, items |-> <<"FILE_IS_BINARY">>]
OtherError   == [isArray |-> FALSE, items |-> <<"FILE_NOT_FOUND">>]
BinaryInList == [isArray |-> TRUE,  items |-> <<"FILE_NOT_FOUND", "FILE_IS_BINARY">>]
OtherInList  == [isArray |-> TRUE,  items |-> <<"FILE_NOT_FOUND", "NONE">>]
NoError      == [isArray |-> FALSE, items |-> <<>>]

Errors == {BinaryError, OtherError, BinaryInList, OtherInList}

\* Outcomes of input.resolve(true)
Pending    == [kind |-> "pending", text |-> FALSE, error |-> NoError]
TextModel  == [kind |-> "model",   text |-> TRUE,  error |-> NoError]
OtherModel == [kind |-> "model",   text |-> FALSE, error |-> NoError]
Failure(e) == [kind |-> "error",   text |-> FALSE, error |-> e]

Outcomes == {TextModel, OtherModel} \cup {Failure(e) : e \in Errors}

\* (<TextDiffEditorModel>resolvedModel).textDiffEditorModel
ModelOf(i, outcome) == IF outcome.text THEN <<"model", i>> ELSE <<"undefined", "">>

NoModel == <<"null", "">>

----------------------------------------------------------------------------
VARIABLES
    input,          \* BaseEditor.input
    position,       \* BaseEditor.position
    disposed,       \* the pane was disposed
    calls,          \* one record per setInput call that loads: its arguments,
                    \* whether the input matched the previous one, the outcome
                    \* of its resolution and the state of the returned promise
    navs,           \* one record per call: the DiffNavigator its completion created
    diffNavigator,  \* TextDiffEditor.diffNavigator: 0 or the creating call
    widgetModel,    \* model of the diff widget
    readOnly,       \* readOnly option of the diff widget
    openRequests,   \* editorService.openEditor calls issued by the pane
    nextEnabled,    \* nextDiffAction.enabled
    prevEnabled,    \* previousDiffAction.enabled
    reapplied,      \* some setInput call took the "same input" path
    delegation,     \* outcome of the last openEditor request of the diff widget
                    \* and the options applied to the original-side editor
    renderSideBySide, \* renderSideBySide option of the diff widget
    toggleActions   \* the toggle actions returned by getSecondaryActions: the
                    \* inlineModeActive variable of each closure and the label

vars == <<input, position, disposed, calls, navs, diffNavigator, widgetModel,
          readOnly, openRequests, nextEnabled, prevEnabled, reapplied, delegation,
                   renderSideBySide, toggleActions>>

NoNavigator == [created |-> FALSE, disposals |-> 0, canNavigate |-> FALSE]

\* A navigator that was created and not yet disposed
Live(n) == n \in 1..Len(navs) /\ navs[n].created /\ navs[n].disposals = 0

Min(a, b) == IF a < b THEN a ELSE b

\* this.diffNavigator.dispose() under "if (this.diffNavigator)"
DisposeNavigator(ns, n) ==
    IF n = 0 THEN ns
    ELSE [ns EXCEPT ![n].disposals = Min(@ + 1, 2)]

\* isFileBinaryError(error) without the array case
IsFileBinaryErrorFlat(e) ==
    ~e.isArray /\ Len(e.items) > 0 /\ e.items[1] = "FILE_IS_BINARY"

\* isFileBinaryError(error)
IsFileBinaryError(e) ==
    IF e.isArray
    THEN \E k \in 1..Len(e.items) : e.items[k] = "FILE_IS_BINARY"
    ELSE Len(e.items) > 0 /\ e.items[1] = "FILE_IS_BINARY"

\* The request of openAsBinary with the two sides exchanged
BinaryRequestSwapped(r, i, o) ==
    [call |-> r,
     name |-> InputDef[i].name, description |-> InputDef[i].description,
     original |-> InputDef[i].modified, modified |-> InputDef[i].original,
     binary |-> TRUE, options |-> o, position |-> position]

\* The request openAsBinary passes to editorService.openEditor
BinaryRequest(r, i, o) ==
    [call |-> r,
     name |-> InputDef[i].name, description |-> InputDef[i].description,
     original |-> InputDef[i].original, modified |-> InputDef[i].modified,
     binary |-> TRUE, options |-> o, position |-> position]

\* openAsBinary(input, options): the requests after the call
OpenAsBinary(r, i, o) ==
    IF IsDiffEditorInput(i) THEN Append(openRequests, BinaryRequest(r, i, o))
    ELSE openRequests

\* readOnly as computed by getCodeEditorOptions() for the current input
CodeEditorReadOnly(i, old) ==
    IF IsDiffEditorInput(i)
    THEN SideKind[InputDef[i].modified] \in {"string", "resource"}
    ELSE old

Init ==
    /\ input = Null
    /\ position = 0
    /\ disposed = FALSE
    /\ calls = <<>>
    /\ navs = <<>>
    /\ diffNavigator = 0
    /\ widgetModel = NoModel
    /\ readOnly = FALSE
    /\ openRequests = <<>>
    /\ nextEnabled = FALSE
    /\ prevEnabled = FALSE
    /\ reapplied = FALSE
    /\ delegation = [result |-> "none", original |-> "none"]
    /\ renderSideBySide = TRUE
    /\ toggleActions = <<>>

\* BaseEditor.setInput, clearInput and dispose: the input the pane holds
\* after super.setInput(input, options), super.clearInput(), super.dispose()
BaseSetInput(i) == i
BaseClearInput == Null
BaseDispose == Null

\* The "same input" test comparing object identity instead of matches()
IsSameInputIdentity(i, o, oldInput) == ~ForceOpen(o) /\ i = oldInput

\* The "same input" test of setInput
IsSameInput(i, o, oldInput) == ~ForceOpen(o) /\ Matches(i, oldInput)

\* setInput(input, options)
SetInput(i, o) ==
    /\ ~disposed
    /\ input' = BaseSetInput(i)
    /\ IF IsSameInput(i, o, input)
       THEN /\ reapplied' = TRUE
            /\ UNCHANGED <<calls, navs>>
       ELSE /\ navs' = Append(DisposeNavigator(navs, diffNavigator), NoNavigator)
            /\ calls' = Append(calls, [input |-> i, options |-> o,
                                       matched |-> Matches(i, input),
                                       result |-> Pending,
                                       promise |-> "pending", reason |-> NoError])
            /\ UNCHANGED reapplied
    /\ UNCHANGED <<position, disposed, diffNavigator, widgetModel, readOnly,
                   openRequests, nextEnabled, prevEnabled,
                   renderSideBySide, toggleActions>>

\* The staleness test without the comparison with the loaded input
IsAnyInput(i) == input # Null

\* The staleness test of the success handler
IsCurrentInput(i) == input # Null /\ input = i

\* The success handler takes the binary path
TakesBinaryPath(i, outcome) == ~outcome.text /\ IsDiffEditorInput(i)

\* Success handler of input.resolve(true)
ResolveDone(r, outcome) ==
    LET i == calls[r].input
        o == calls[r].options
    IN  /\ calls' = [calls EXCEPT ![r].result = outcome, ![r].promise = "fulfilled"]
        /\ IF TakesBinaryPath(i, outcome)
           THEN /\ openRequests' = OpenAsBinary(r, i, o)
                /\ UNCHANGED <<navs, diffNavigator, widgetModel, readOnly>>
           ELSE IF ~IsCurrentInput(i)
           THEN UNCHANGED <<navs, diffNavigator, widgetModel, readOnly, openRequests>>
           ELSE /\ widgetModel' = ModelOf(i, outcome)
                /\ diffNavigator' = r
                /\ navs' = [navs EXCEPT ![r].created = TRUE]
                /\ readOnly' = CodeEditorReadOnly(input, readOnly)
                /\ UNCHANGED openRequests

\* The error the returned promise is rejected with
WrapError(e) == e

\* The error handler suppressing every error of a comparison
SuppressesAnyError(i, e) == IsDiffEditorInput(i)

\* The error handler suppresses the error
SuppressesError(i, e) == IsFileBinaryError(e) /\ IsDiffEditorInput(i)

\* Error handler of input.resolve(true)
ResolveFailed(r, outcome) ==
    LET i == calls[r].input
        o == calls[r].options
        e == outcome.error
    IN  /\ IF SuppressesError(i, e)
           THEN /\ openRequests' = OpenAsBinary(r, i, o)
                /\ calls' = [calls EXCEPT ![r].result = outcome,
                                          ![r].promise = "fulfilled"]
           ELSE /\ calls' = [calls EXCEPT ![r].result = outcome,
                                          ![r].promise = "rejected",
                                          ![r].reason = WrapError(e)]
                /\ UNCHANGED openRequests
        /\ UNCHANGED <<navs, diffNavigator, widgetModel, readOnly>>

\* The resolution started by call r completes
Complete(r, outcome) ==
    /\ r \in 1..Len(calls)
    /\ calls[r].result = Pending
    /\ IF outcome.kind = "model" THEN ResolveDone(r, outcome)
                                 ELSE ResolveFailed(r, outcome)
    /\ UNCHANGED <<input, position, disposed, nextEnabled, prevEnabled, reapplied, delegation,
                   renderSideBySide, toggleActions>>

\* clearInput()
ClearInput ==
    /\ ~disposed
    /\ navs' = DisposeNavigator(navs, diffNavigator)
    /\ widgetModel' = NoModel
    /\ input' = BaseClearInput
    /\ UNCHANGED <<position, disposed, calls, diffNavigator, readOnly,
                   openRequests, nextEnabled, prevEnabled, reapplied, delegation,
                   renderSideBySide, toggleActions>>

\* dispose()
Dispose ==
    /\ ~disposed
    /\ navs' = DisposeNavigator(navs, diffNavigator)
    /\ input' = BaseDispose
    /\ disposed' = TRUE
    /\ UNCHANGED <<position, calls, diffNavigator, widgetModel, readOnly,
                   openRequests, nextEnabled, prevEnabled, reapplied, delegation,
                   renderSideBySide, toggleActions>>

\* The host moves the pane to another position
ChangePosition(p) ==
    /\ ~disposed
    /\ p # position
    /\ position' = p
    /\ UNCHANGED <<input, disposed, calls, navs, diffNavigator, widgetModel,
                   readOnly, openRequests, nextEnabled, prevEnabled, reapplied, delegation,
                   renderSideBySide, toggleActions>>

\* NavigateAction.updateEnablement()
UpdateEnablement(ns) == ns[diffNavigator].canNavigate

\* Navigator n emits DiffNavigator.Events.UPDATED; the listener registered
\* by setInput updates both actions
DiffUpdated(n, can) ==
    /\ ~disposed
    /\ Live(n)
    /\ navs' = [navs EXCEPT ![n].canNavigate = can]
    /\ nextEnabled' = UpdateEnablement(navs')
    /\ prevEnabled' = UpdateEnablement(navs')
    /\ UNCHANGED <<input, position, disposed, calls, diffNavigator, widgetModel,
                   readOnly, openRequests, reapplied, delegation,
                   renderSideBySide, toggleActions>>

\* Inputs of the open requests of the diff widget: the sides of the
\* comparisons "A" and "D" (each unrelated to the other comparison), no input
RequestInputs == {"m1", "o1", "s", Null}

\* The third argument of an open request: undefined or null (which
\* types.isUndefinedOrNull does not tell apart), false, or a position
PositionArgs ==
    {[kind |-> k, value |-> 0] : k \in {"undefinedOrNull", "false"}}
        \cup {[kind |-> "position", value |-> p] : p \in Positions}

\* input.matches(side) for the input of a request and a side of the comparison
SideMatches(i, side) == i # Null /\ side # Null /\ i = side

\* The position test of the delegate accepting every third argument
IsAnyPosition(a) == TRUE

\* types.isUndefinedOrNull(arg3) || arg3 === false || arg3 === this.position
IsOwnPosition(a) ==
    \/ a.kind = "undefinedOrNull"
    \/ a.kind = "false"
    \/ a.kind = "position" /\ a.value = position

\* The delegate returns TPromise.as(null)
DelegateNull ==
    /\ delegation' = [delegation EXCEPT !.result = "null"]
    /\ UNCHANGED <<input, position, disposed, calls, navs, diffNavigator, widgetModel,
                   readOnly, openRequests, nextEnabled, prevEnabled, reapplied,
                   renderSideBySide, toggleActions>>

\* The openEditor delegate of the editor service handed to the diff widget
DelegatedOpen(i, o, a) ==
    /\ ~disposed
    /\ IF IsOwnPosition(a) /\ i # Null /\ OptionsDef[o].defined /\ input # Null
       THEN IF SideMatches(i, InputDef[input].modified)
            THEN /\ SetInput(input, o)
                 /\ delegation' = [delegation EXCEPT !.result = "setInput"]
            ELSE IF SideMatches(i, InputDef[input].original) /\ OptionsDef[o].isText
            THEN /\ delegation' = [result |-> "this", original |-> o]
                 /\ UNCHANGED <<input, position, disposed, calls, navs, diffNavigator,
                                widgetModel, readOnly, openRequests, nextEnabled,
                                prevEnabled, reapplied, renderSideBySide,
                                toggleActions>>
            ELSE DelegateNull
       ELSE DelegateNull

\* The two labels of a toggle action
InlineLabel == "Switch to Inline View"
SideBySideLabel == "Switch to Side by Side View"

\* inlineModeActive ? sideBySideLabel : inlineLabel
ToggleLabel(inlineModeActive) ==
    IF inlineModeActive THEN SideBySideLabel ELSE InlineLabel

\* getSecondaryActions(): a new toggle action whose closure captures the
\* mode of the widget at this moment
GetSecondaryActions ==
    /\ ~disposed
    /\ Len(toggleActions) < MaxToggleActions
    /\ toggleActions' = Append(toggleActions,
                               [inlineModeActive |-> ~renderSideBySide,
                                label |-> ToggleLabel(~renderSideBySide)])
    /\ UNCHANGED <<input, position, disposed, calls, navs, diffNavigator, widgetModel,
                   readOnly, openRequests, nextEnabled, prevEnabled, reapplied,
                   delegation, renderSideBySide>>

\* The toggle action k runs
RunToggle(k) ==
    /\ ~disposed
    /\ k \in 1..Len(toggleActions)
    /\ renderSideBySide' = toggleActions[k].inlineModeActive
    /\ toggleActions' =
          [toggleActions EXCEPT
              ![k] = [inlineModeActive |-> ~toggleActions[k].inlineModeActive,
                      label |-> ToggleLabel(~toggleActions[k].inlineModeActive)]]
    /\ UNCHANGED <<input, position, disposed, calls, navs, diffNavigator, widgetModel,
                   readOnly, openRequests, nextEnabled, prevEnabled, reapplied,
                   delegation>>

\* A further setInput(i, o) is explored while fewer than max resolutions
\* were started
CanCall(i, o, max) == IsSameInput(i, o, input) \/ Len(calls) < max

\* The pane's operations and the completions of its resolutions, for the
\* given inputs, options and outcomes
Lifecycle(ins, opts, outs, max) ==
    \/ \E i \in ins, o \in opts :
          CanCall(i, o, max) /\ SetInput(i, o) /\ UNCHANGED delegation
    \/ \E r \in 1..max, outcome \in outs : Complete(r, outcome)
    \/ ClearInput
    \/ Dispose

\* Every input and option; a resolution yields a text model, another model
\* or the binary-file error
Next == Lifecycle(Inputs, Options, {TextModel, OtherModel, Failure(BinaryError)}, MaxCalls)

Spec == Init /\ [][Next]_vars

\* Every shape of outcome for a comparison and a plain input, in a pane that
\* is moved between positions
NextErrors ==
    \/ Lifecycle({"A", "N"}, {"none", "opts"}, Outcomes, MaxCalls)
    \/ \E p \in Positions : ChangePosition(p)

SpecErrors == Init /\ [][NextErrors]_vars

\* The diff widget reports updated diffs to the navigators
NextNavigate ==
    \/ Lifecycle({"A", "B"}, Options, {TextModel, Failure(OtherError)}, MaxCalls)
    \/ \E n \in 1..MaxCalls, can \in BOOLEAN : DiffUpdated(n, can)

SpecNavigate == Init /\ [][NextNavigate]_vars

\* Up to MaxDeepCalls loads of the inputs "A" and "B", all resolving to text
NextDeep == Lifecycle({"A", "B"}, Options, {TextModel}, MaxDeepCalls)

SpecDeep == Init /\ [][NextDeep]_vars

\* The diff widget issues open requests in a pane that is moved between
\* positions; the comparisons "A" and "D" are set without options and
\* resolve to text
NextDelegate ==
    \/ Lifecycle({"A", "D"}, {"none"}, {TextModel}, MaxCalls)
    \/ \E i \in RequestInputs, o \in Options, a \in PositionArgs :
          /\ Len(calls) < MaxCalls \/ ~ForceOpen(o)
          /\ DelegatedOpen(i, o, a)
    \/ \E p \in Positions : ChangePosition(p)

SpecDelegate == Init /\ [][NextDelegate]_vars

\* The toggle actions of the pane are requested and run while its input
\* "A" is set, loaded and cleared
NextToggle ==
    \/ Lifecycle({"A"}, {"none", "force"}, {TextModel}, MaxCalls)
    \/ GetSecondaryActions
    \/ \E k \in 1..MaxToggleActions : RunToggle(k)

SpecToggle == Init /\ [][NextToggle]_vars

----------------------------------------------------------------------------
\* Vocabulary of the properties

LiveNavigators == {n \in 1..Len(navs) : Live(n)}

\* The resolution of call r completes in this step
Completes(r) == calls[r].result = Pending /\ calls'[r].result # Pending

\* An error that is, or contains, the binary-file error
HasBinaryCode(e) == \E k \in DOMAIN e.items : e.items[k] = "FILE_IS_BINARY"

\* A resolution outcome that reports binary content
ReportsBinary(outcome) ==
    \/ outcome.kind = "model" /\ ~outcome.text
    \/ outcome.kind = "error" /\ HasBinaryCode(outcome.error)

\* The text path of a completion was not taken in this step
NoTextPath ==
    /\ widgetModel' = widgetModel
    /\ diffNavigator' = diffNavigator
    /\ navs' = navs

RequestsOf(r) == {k \in 1..Len(openRequests) : openRequests[k].call = r}

----------------------------------------------------------------------------
\* C1: in every reachable state at most one DiffNavigator that was created
\* and not yet disposed exists for the pane.
AtMostOneLiveNavigator == Cardinality(LiveNavigators) <= 1

\* C2: a resolution that completes after the pane's input was changed to
\* something other than the input it was started for changes neither the
\* widget's model, the navigator, the widget options nor the open requests.
StaleCompletionInvisible ==
    [][\A r \in 1..Len(calls) :
          (Completes(r) /\ input # calls[r].input) =>
              /\ NoTextPath
              /\ readOnly' = readOnly
              /\ openRequests' = openRequests]_vars

\* C3: when a navigator is created for an input, every navigator created
\* for a different input has been disposed.
NavigatorsDisposedInOrder ==
    [][\A r \in 1..Len(navs) :
          (~navs[r].created /\ navs'[r].created) =>
              \A q \in 1..Len(navs) :
                  (navs[q].created /\ calls[q].input # calls[r].input)
                      => navs[q].disposals > 0]_vars

\* C4: setInput with an input that matches the current input and without
\* forceOpen disposes no navigator, starts no resolution and leaves the
\* widget's model and the pane's navigator as they were.
SameInputKeepsNavigator ==
    [][\A i \in Inputs, o \in Options :
          (Matches(i, input) /\ ~OptionsDef[o].forceOpen /\ SetInput(i, o)) =>
              /\ navs' = navs
              /\ calls' = calls
              /\ widgetModel' = widgetModel
              /\ diffNavigator' = diffNavigator]_vars

\* A loaded comparison "A" was set again as the distinct object "A2"
SameInputWitness ==
    /\ Len(calls) = 1
    /\ calls[1].input = "A"
    /\ input = "A2"
    /\ diffNavigator = 1
    /\ Live(1)
    /\ widgetModel = <<"model", "A">>

\* The binary variant of comparison i, opened with options o at position p
\* on behalf of call r
BinaryVariant(r, i, o, p) ==
    [call |-> r,
     name |-> InputDef[i].name, description |-> InputDef[i].description,
     original |-> InputDef[i].original, modified |-> InputDef[i].modified,
     binary |-> TRUE, options |-> o, position |-> p]

\* C5: a comparison input whose resolution reports binary content (the
\* binary-file error, alone or in an array, or a model that is not a text
\* diff model) makes the pane issue exactly one openEditor call for that
\* setInput: the binary variant of the same comparison, with the same
\* options, at the pane's position.
BinaryOpensOnce ==
    /\ [](\A r \in 1..Len(calls) :
            IsDiffEditorInput(calls[r].input) =>
                Cardinality(RequestsOf(r)) = IF ReportsBinary(calls[r].result) THEN 1 ELSE 0)
    /\ [][\A r \in 1..Len(calls) :
            (Completes(r) /\ IsDiffEditorInput(calls[r].input)
                          /\ ReportsBinary(calls'[r].result)) =>
                openRequests' = Append(openRequests,
                    BinaryVariant(r, calls[r].input, calls[r].options, position))]_vars

\* A stale resolution of "A" failed with the binary-file error inside an
\* array after the pane was moved, and the binary variant was opened there
BinaryOpensOnceWitness ==
    /\ Len(calls) = 2
    /\ calls[1].input = "A"
    /\ calls[1].result = Failure(BinaryInList)
    /\ calls[1].options = "opts"
    /\ Len(openRequests) = 1
    /\ openRequests[1].position = 1
    /\ openRequests[1].call = 1

\* C6 as stated: whenever a resolution fails with the binary-file error the
\* returned promise completes successfully and the text path is not taken.
BinaryErrorSuppressed ==
    [][\A r \in 1..Len(calls) :
          (Completes(r) /\ calls'[r].result.kind = "error"
                        /\ HasBinaryCode(calls'[r].result.error)) =>
              /\ calls'[r].promise = "fulfilled"
              /\ NoTextPath]_vars

\* C6 amended: when the resolution of a comparison input (a DiffEditorInput)
\* fails with the binary-file error, alone or inside an array, the returned
\* promise completes successfully and the text path is not taken.
BinaryErrorSuppressedForDiff ==
    [][\A r \in 1..Len(calls) :
          (Completes(r) /\ IsDiffEditorInput(calls[r].input)
                        /\ calls'[r].result.kind = "error"
                        /\ HasBinaryCode(calls'[r].result.error)) =>
              /\ calls'[r].promise = "fulfilled"
              /\ NoTextPath]_vars

\* The current comparison failed with the binary-file error inside an array
\* and its promise completed
BinaryErrorSuppressedWitness ==
    \E r \in 1..Len(calls) :
        /\ calls[r].input = "A"
        /\ input = "A"
        /\ calls[r].result = Failure(BinaryInList)
        /\ calls[r].promise = "fulfilled"

\* C7: when a resolution fails with an error that is not the binary-file
\* error, the returned promise rejects with that error, no openEditor call
\* is issued and the text path is not taken.
OtherErrorPassedThrough ==
    [][\A r \in 1..Len(calls) :
          (Completes(r) /\ calls'[r].result.kind = "error"
                        /\ ~HasBinaryCode(calls'[r].result.error)) =>
              /\ calls'[r].promise = "rejected"
              /\ calls'[r].reason = calls'[r].result.error
              /\ openRequests' = openRequests
              /\ NoTextPath]_vars

\* The current comparison failed with an array of other errors and its
\* promise was rejected with it
OtherErrorWitness ==
    \E r \in 1..Len(calls) :
        /\ calls[r].input = "A"
        /\ input = "A"
        /\ calls[r].result = Failure(OtherInList)
        /\ calls[r].promise = "rejected"
        /\ openRequests = <<>>

\* C8: after clearInput or dispose, until the next setInput, no navigator
\* of the pane is left undisposed, also when resolutions complete then.
NoNavigatorAfterTeardown == input = Null => LiveNavigators = {}

\* C9: the enabled flag of both navigation actions is true exactly when the
\* pane holds a live navigator that can navigate.
EnablementMirrorsNavigator ==
    LET canNavigate == diffNavigator # 0 /\ Live(diffNavigator)
                                         /\ navs[diffNavigator].canNavigate
    IN  nextEnabled = canNavigate /\ prevEnabled = canNavigate

\* The two setInput calls of C10 and no other: a load of one input followed
\* by a load of an input that does not match it
Superseded ==
    Len(calls) = 2 /\ ~reapplied /\ ~Matches(calls[2].input, calls[1].input)

\* C10: after setInput(A) and setInput(B), B not matching A, both resolving
\* to text models in either order, the widget shows B's model and the pane's
\* navigator is the live one created for B; A's model is never set on the
\* widget once setInput(B) was called.
LaterInputSupersedes ==
    /\ []((/\ Superseded
           /\ input = calls[2].input
           /\ calls[1].result = TextModel
           /\ calls[2].result = TextModel) =>
              /\ widgetModel = ModelOf(calls[2].input, TextModel)
              /\ diffNavigator = 2
              /\ Live(2))
    /\ [][(Superseded /\ Len(calls') = 2 /\ widgetModel' # widgetModel) =>
              widgetModel' # ModelOf(calls[1].input, TextModel)]_vars

\* "A" then "B" were loaded, the resolution of "A" completed last and was
\* dropped
SupersedesWitness ==
    /\ Len(calls) = 2
    /\ calls[1].input = "A"
    /\ calls[2].input = "B"
    /\ calls[1].result = TextModel
    /\ calls[2].result = TextModel
    /\ ~navs[1].created
    /\ input = "B"
    /\ widgetModel = <<"model", "B">>
    /\ Live(2)

\* The navigators that are live after the step
LiveNavigatorsAfter == {n \in 1..Len(navs') : navs'[n].created /\ navs'[n].disposals = 0}

\* C11: when the resolution of setInput(X) succeeds with a text model and
\* since that call the pane received no clearInput and no setInput with an
\* input that does not match X (so no later load was started and the pane
\* still has an input), the widget's model becomes X's model and the pane
\* holds a live navigator.
MatchingLoadShown ==
    [][\A r \in 1..Len(calls) :
          (/\ Completes(r)
           /\ calls'[r].result = TextModel
           /\ r = Len(calls)
           /\ input # Null
           /\ Matches(input, calls[r].input)) =>
              /\ widgetModel' = ModelOf(calls[r].input, TextModel)
              /\ diffNavigator' # 0
              /\ diffNavigator' \in LiveNavigatorsAfter]_vars

\* C12: setInput with forceOpen on an input that matches the current input
\* disposes the current navigator and starts a resolution; when that
\* resolution succeeds with a text model for the still current input, the
\* widget's model is set and the fresh navigator is the only live one.
ForcedReloadLeavesOneNavigator ==
    /\ [][\A i \in Inputs, o \in Options :
            (Matches(i, input) /\ OptionsDef[o].forceOpen /\ SetInput(i, o)) =>
                /\ Len(calls') = Len(calls) + 1
                /\ calls'[Len(calls')].result = Pending
                /\ diffNavigator # 0 => navs'[diffNavigator].disposals > 0]_vars
    /\ [][\A r \in 1..Len(calls) :
            (/\ Completes(r)
             /\ calls'[r].result = TextModel
             /\ calls[r].matched
             /\ OptionsDef[calls[r].options].forceOpen
             /\ input = calls[r].input) =>
                /\ widgetModel' = ModelOf(calls[r].input, TextModel)
                /\ diffNavigator' = r
                /\ LiveNavigatorsAfter = {r}]_vars

\* C13: the navigator returned by getDiffNavigator was never disposed, and
\* no navigator was disposed more than once.
NavigatorNeverStale ==
    /\ diffNavigator # 0 => navs[diffNavigator].disposals = 0
    /\ \A n \in 1..Len(navs) : navs[n].disposals <= 1

\* C14: an open request of the diff widget is handled by the pane only when
\* its position argument is undefined, null, false or the pane's position
\* and the input, the options and a current input are present.  A request
\* for the modified side is passed to setInput with the pane's current input
\* (no load without forceOpen); a request for the original side only, with
\* text editor options, applies them to the original-side editor; every
\* other request resolves to null and leaves input, widget model and
\* navigator unchanged.
DelegateHandlesOwnRequests ==
    [][\A i \in RequestInputs, o \in Options, a \in PositionArgs :
          DelegatedOpen(i, o, a) =>
              LET own == \/ a.kind \in {"undefinedOrNull", "false"}
                         \/ a.kind = "position" /\ a.value = position
                  present == i # Null /\ o # "none" /\ input # Null
                  onModified == own /\ present /\ i = InputDef[input].modified
                  onOriginal == /\ own /\ present
                                /\ i # InputDef[input].modified
                                /\ i = InputDef[input].original
                                /\ o = "opts"
                  paneUnchanged == /\ input' = input
                                   /\ widgetModel' = widgetModel
                                   /\ diffNavigator' = diffNavigator
                                   /\ navs' = navs
                                   /\ calls' = calls
              IN  CASE onModified ->
                         /\ SetInput(input, o)
                         /\ delegation'.result = "setInput"
                         /\ delegation'.original = delegation.original
                         /\ o # "force" => paneUnchanged
                    [] onOriginal ->
                         /\ delegation' = [result |-> "this", original |-> o]
                         /\ paneUnchanged
                    [] OTHER ->
                         /\ delegation'.result = "null"
                         /\ delegation'.original = delegation.original
                         /\ paneUnchanged]_vars

\* Text editor options were applied to the original-side editor of the
\* loaded comparison "A" in a pane at position 1, and a later request for its
\* modified side went through setInput
DelegateWitness ==
    /\ input = "A"
    /\ position = 1
    /\ widgetModel = <<"model", "A">>
    /\ delegation = [result |-> "setInput", original |-> "opts"]
    /\ reapplied

\* C15: every toggle action obtained from getSecondaryActions carries the
\* label naming the mode opposite to the widget's current render mode, after
\* any number of runs of any of these actions, and every run of such an
\* action flips renderSideBySide (so two runs restore the mode).
ToggleNamesOppositeMode ==
    /\ [](\A k \in 1..Len(toggleActions) :
             toggleActions[k].label =
                 IF renderSideBySide THEN InlineLabel ELSE SideBySideLabel)
    /\ [][\A k \in 1..MaxToggleActions :
             RunToggle(k) => renderSideBySide' = ~renderSideBySide]_vars
====
